---- MODULE Spec2Model ----
(***************************************************************************)
(* N-dimensional BSP tree of src/gcode_to_voxel/NTree.py (classes Ntree    *)
(* and Node) as a state machine, followed by the Amf mesh of               *)
(* src/stl_to_amf/stl_to_amf.py and the G-code parser of                   *)
(* src/gcode_to_voxel/gcode_to_voxel.py, each under its own specification. *)
(*                                                                         *)
(* Coordinates are integers.  A range of a node is a pair <<lo, hi>>; a    *)
(* region handed to a node is a sequence of slices [start, stop, step],    *)
(* one per axis, the step being a rational [num, den].  An attribute       *)
(* vector is a tuple.  Python's None is the record None, a present value x *)
(* is Some(x).  A node without children has nodes = <<>> (self.nodes is    *)
(* None), a node with children has a sequence of nodes in np.ndenumerate   *)
(* (row-major) order.  An array is a nested sequence, outermost axis       *)
(* first, whose innermost elements are attribute vectors.                  *)
(***************************************************************************)
EXTENDS Integers, Sequences, FiniteSets, TLC

VARIABLES tree, last, call, dense

vars == <<tree, last, call, dense>>

\* ------------------------------------------------------------------ bounds
\* Subdivision depth ceiling (max_depth) of the tree the state machine uses.
MaxDepth == 1
\* Attribute values are 0..MaxVal; 0 is the default value.
MaxVal == 1

\* ----------------------------------------------------------------- helpers
None == [none |-> TRUE]
Some(x) == [none |-> FALSE, val |-> x]
IsNone(o) == o.none

Min(a, b) == IF a <= b THEN a ELSE b
Max(a, b) == IF a >= b THEN a ELSE b

RECURSIVE Pow2(_)
Pow2(n) == IF n <= 0 THEN 1 ELSE 2 * Pow2(n - 1)

\* Bit of child number k (1-based, row-major) on axis i of D axes: 0 is the
\* low half, 1 the high half; the last axis varies fastest.
Bit(k, i, D) == ((k - 1) \div Pow2(D - i)) % 2

\* ------------------------------------------------------------ class Node
\* Node.__init__: a node without children.  self.dims is len(ranges.shape),
\* the number of axes of the array that holds the ranges: 2 for a D x 2 array
\* whatever D is, 1 for the empty array.
NewNode(ranges, attrs, level, max_level) ==
  [dims |-> IF ranges = <<>> THEN 1 ELSE 2,
   ranges |-> ranges, attrs |-> attrs, level |-> level,
   max_level |-> max_level, nodes |-> <<>>]

\* Node._contained_by: the node's ranges lie inside the region on every axis.
ContainedBy(node, coords) ==
  \A i \in 1..Len(node.ranges) :
     /\ coords[i].start <= node.ranges[i][1]
     /\ node.ranges[i][2] <= coords[i].stop

\* Node._divide_ranges: the ranges of the 2^D children, each axis cut at the
\* centre (self.centers = ranges.mean(-1)).
DivideRanges(ranges) ==
  LET D == Len(ranges)
      mid(i) == (ranges[i][1] + ranges[i][2]) \div 2
  IN [k \in 1..Pow2(D) |->
        [i \in 1..D |-> IF Bit(k, i, D) = 0
                        THEN <<ranges[i][1], mid(i)>>
                        ELSE <<mid(i), ranges[i][2]>>]]

\* Node.divided_ranges: the region cut at the node's centre, one sub-region
\* per child; a sub-region may be empty (start = stop) on an axis.
DividedRanges(node, coords) ==
  LET D == Len(node.ranges)
      mid(i) == (node.ranges[i][1] + node.ranges[i][2]) \div 2
  IN [k \in 1..Pow2(D) |->
        [i \in 1..D |->
           IF Bit(k, i, D) = 0
           THEN [coords[i] EXCEPT !.start = Min(coords[i].start, mid(i)),
                                  !.stop = Min(coords[i].stop, mid(i))]
           ELSE [coords[i] EXCEPT !.start = Max(coords[i].start, mid(i)),
                                  !.stop = Max(coords[i].stop, mid(i))]]]

\* A sub-region that is non-empty on every axis: the child is written.
Intersects(coords) == \A i \in 1..Len(coords) : coords[i].start < coords[i].stop

\* The ranges child number k is built with.  The call Node(attrs=..,
\* level=.., max_level=..) in _split passes none; range_idx is computed from
\* idx to select them from nodes_ranges.  A child beyond the 2^D divided
\* ranges has none.
ChildRanges(nodes_ranges, k) ==
  IF k <= Len(nodes_ranges) THEN nodes_ranges[k] ELSE <<>>

\* Node._split: np.empty([2] * self.dims) children at level + 1 holding the
\* node's attributes.
Split(node) ==
  LET nodes_ranges == DivideRanges(node.ranges)
  IN [node EXCEPT !.nodes =
        [k \in 1..Pow2(node.dims) |->
           NewNode(ChildRanges(nodes_ranges, k), node.attrs, node.level + 1,
                   node.max_level)]]

RECURSIVE Merge(_), MergeFrom(_, _)

\* all(n._merge() for n in self.nodes.flatten()): the generator stops at the
\* first child whose _merge() returns False.
MergeFrom(nodes, k) ==
  IF k > Len(nodes) THEN [nodes |-> nodes, ok |-> TRUE]
  ELSE LET r == Merge(nodes[k])
       IN IF r.ok THEN MergeFrom([nodes EXCEPT ![k] = r.node], k + 1)
          ELSE [nodes |-> [nodes EXCEPT ![k] = r.node], ok |-> FALSE]

\* Node._merge that never deletes the children.
MergeNoCollapse(node) == [node |-> node, ok |-> node.nodes = <<>>]

\* Node._merge that deletes equal children without taking their value.
MergeStaleAttrs(node) ==
  IF node.nodes = <<>> THEN [node |-> node, ok |-> TRUE]
  ELSE LET m == MergeFrom(node.nodes, 1)
       IN IF ~m.ok THEN [node |-> [node EXCEPT !.nodes = m.nodes], ok |-> FALSE]
          ELSE IF \A k \in 1..Len(m.nodes) : m.nodes[k].attrs = m.nodes[1].attrs
               THEN [node |-> [node EXCEPT !.nodes = <<>>], ok |-> TRUE]
               ELSE [node |-> [node EXCEPT !.nodes = m.nodes], ok |-> FALSE]

\* Node._merge: the node after the call and the returned bool.
Merge(node) ==
  IF node.nodes = <<>> THEN [node |-> node, ok |-> TRUE]
  ELSE LET m == MergeFrom(node.nodes, 1)
       IN IF ~m.ok THEN [node |-> [node EXCEPT !.nodes = m.nodes], ok |-> FALSE]
          ELSE LET cmp_val == m.nodes[1].attrs
               IN IF \A k \in 1..Len(m.nodes) : m.nodes[k].attrs = cmp_val
                  THEN [node |-> [node EXCEPT !.attrs = cmp_val, !.nodes = <<>>],
                        ok |-> TRUE]
                  ELSE [node |-> [node EXCEPT !.nodes = m.nodes], ok |-> FALSE]

RECURSIVE SetItem(_, _, _), SetNodes(_, _, _)

\* Node._set_nodes that writes every child, reached by the region or not.
SetNodesAll(node, coords, value) ==
  LET sub == DividedRanges(node, coords)
  IN [node EXCEPT !.nodes =
        [k \in 1..Len(node.nodes) |-> SetItem(node.nodes[k], sub[k], value)]]

\* Node._set_nodes: write the sub-region of every child the region reaches.
SetNodes(node, coords, value) ==
  LET sub == DividedRanges(node, coords)
  IN [node EXCEPT !.nodes =
        [k \in 1..Len(node.nodes) |->
           IF Intersects(sub[k]) THEN SetItem(node.nodes[k], sub[k], value)
           ELSE node.nodes[k]]]

\* Node.__setitem__
SetItem(node, coords, value) ==
  IF node.level <= node.max_level /\ ~ContainedBy(node, coords)
  THEN LET n1 == IF node.nodes = <<>> THEN Split(node) ELSE node
           n2 == SetNodes(n1, coords, value)
       IN Merge(n2).node
  ELSE [node EXCEPT !.attrs = value]

\* np.tile(self.attrs, out_shape): the attribute vector repeated over an
\* array of the given per-axis extents.
RECURSIVE Tile(_, _, _)
Tile(attrs, out_shape, i) ==
  IF i > Len(out_shape) THEN attrs
  ELSE [r \in 1..out_shape[i] |-> Tile(attrs, out_shape, i + 1)]

\* Concatenation of two arrays along axis a (1 is the outermost axis).
RECURSIVE ConcatAxis(_, _, _)
ConcatAxis(X, Y, a) ==
  IF a = 1 THEN X \o Y
  ELSE [r \in 1..Len(X) |-> ConcatAxis(X[r], Y[r], a - 1)]

\* np.block(nodes_items): the children's arrays assembled low half before
\* high half on every axis; items holds the children whose index agrees with
\* base on the axes before axis i.
RECURSIVE Block(_, _, _, _)
Block(items, D, i, base) ==
  IF i > D THEN items[base + 1]
  ELSE ConcatAxis(Block(items, D, i + 1, base),
                  Block(items, D, i + 1, base + Pow2(D - i)), i)

\* (s.stop - s.start) / s.step as a whole number of steps, when it is one.
Exact(s) == ((s.stop - s.start) * s.step.den) % s.step.num = 0
Count(s) == ((s.stop - s.start) * s.step.den) \div s.step.num

RECURSIVE GetItem(_, _), GetNodes(_, _)

\* Node._get_nodes (called as _read_nodes): the children's reads of their
\* sub-regions, assembled into one array.
GetNodes(node, coords) ==
  LET sub == DividedRanges(node, coords)
      items == [k \in 1..Len(node.nodes) |-> GetItem(node.nodes[k], sub[k])]
  IN IF \A k \in 1..Len(items) : items[k].ok
     THEN [ok |-> TRUE,
           arr |-> Block([k \in 1..Len(items) |-> items[k].arr],
                         Len(node.ranges), 1, 0)]
     ELSE [ok |-> FALSE, arr |-> <<>>]

\* Node.__getitem__: a leaf tiles its attributes over
\* (s.stop - s.start) / s.step cells per axis; np.tile rejects an extent that
\* is not a whole number.
GetItem(node, coords) ==
  IF node.nodes # <<>> THEN GetNodes(node, coords)
  ELSE IF \A i \in 1..Len(coords) : Exact(coords[i])
       THEN [ok |-> TRUE,
             arr |-> Tile(node.attrs, [i \in 1..Len(coords) |-> Count(coords[i])], 1)]
       ELSE [ok |-> FALSE, arr |-> <<>>]

\* ----------------------------------------------------------- class Ntree
\* ceil(log2(span / res)) for span > 0 and res > 0: the least d with
\* res * 2^d >= span when span >= res, else minus the greatest e with
\* span * 2^e <= res.
RECURSIVE CeilLog2Up(_, _, _), CeilLog2Down(_, _, _)
CeilLog2Up(span, res, d) ==
  IF res * Pow2(d) >= span THEN d ELSE CeilLog2Up(span, res, d + 1)
CeilLog2Down(span, res, e) ==
  IF span * Pow2(e + 1) <= res THEN CeilLog2Down(span, res, e + 1) ELSE e
CeilLog2(span, res) ==
  IF span >= res THEN CeilLog2Up(span, res, 0) ELSE 0 - CeilLog2Down(span, res, 0)

\* np.diff(ranges, axis=-1).flatten()
Spans(ranges) == [i \in 1..Len(ranges) |-> ranges[i][2] - ranges[i][1]]

SetMax(S) == CHOOSE m \in S : \A x \in S : x <= m

\* int(np.ceil(np.max(np.log2(steps)))) with steps = spans / resolution:
\* np.max of no element and int() of nan raise ValueError, int() of an
\* infinity raises OverflowError.  log2 is nan for a negative step and for
\* 0 / 0, -inf for a zero step, +inf for a positive span over resolution 0.
DerivedDepth(ranges, res) ==
  LET sp == Spans(ranges)
      D == Len(ranges)
      isnan(i) == sp[i] < 0 \/ (res = 0 /\ sp[i] = 0)
      posinf(i) == res = 0 /\ sp[i] > 0
      finite(i) == res > 0 /\ sp[i] > 0
  IN IF D = 0 THEN [status |-> "ValueError", depth |-> 0]
     ELSE IF \E i \in 1..D : isnan(i) THEN [status |-> "ValueError", depth |-> 0]
     ELSE IF \E i \in 1..D : posinf(i) THEN [status |-> "OverflowError", depth |-> 0]
     ELSE IF \A i \in 1..D : ~finite(i) THEN [status |-> "OverflowError", depth |-> 0]
     ELSE [status |-> "ok",
           depth |-> SetMax({CeilLog2(sp[i], res) : i \in {j \in 1..D : finite(j)}})]

NoTree == [dims |-> None, ranges |-> <<>>, resolution |-> <<>>, max_depth |-> 0,
           dflt_attrs |-> <<>>, n_attrs |-> 0, root |-> NewNode(<<>>, <<>>, 0, 0)]

\* Ntree._assert_construction: "# TODO  pass".
AssertConstruction(t) == "ok"

\* Ntree.__init__(ranges, resolution, attrs, n_dimensions, max_depth).
\* ranges and n_dimensions are None or Some(..), resolution is None or
\* Some(a number), attrs is [scalar |-> TRUE, val |-> a number] or
\* [scalar |-> FALSE, val |-> a vector].  The result is the raised error, or
\* "ok" and the object.
NtreeNew(ranges, resolution, attrs, n_dimensions, max_depth) ==
  IF IsNone(ranges)
  THEN \* len(None), [resolution] * None and range(None) raise TypeError
       [status |-> "TypeError", tree |-> NoTree]
  ELSE
    LET dims == IF ~IsNone(n_dimensions) THEN Some(Len(ranges.val)) ELSE None
        dd == IF ~IsNone(resolution) THEN DerivedDepth(ranges.val, resolution.val)
              ELSE [status |-> "ok", depth |-> max_depth]
        res == IF ~IsNone(resolution)
               THEN [i \in 1..Len(ranges.val) |-> [num |-> resolution.val, den |-> 1]]
               ELSE [i \in 1..Len(ranges.val) |->
                       [num |-> Spans(ranges.val)[i], den |-> Pow2(max_depth)]]
    IN IF dd.status # "ok" THEN [status |-> dd.status, tree |-> NoTree]
       ELSE IF attrs.scalar
       THEN \* len(attrs) of a number raises TypeError
            [status |-> "TypeError", tree |-> NoTree]
       ELSE LET t == [dims |-> dims, ranges |-> ranges.val, resolution |-> res,
                      max_depth |-> dd.depth, dflt_attrs |-> attrs.val,
                      n_attrs |-> Len(attrs.val),
                      root |-> NewNode(ranges.val, attrs.val, 0, dd.depth)]
            IN [status |-> AssertConstruction(t), tree |-> t]

\* A coordinate of a call: a slice start:stop, either side None or Some(c),
\* or a scalar c.
Slice(a, b) == [scalar |-> FALSE, start |-> a, stop |-> b]
Scalar(c) == [scalar |-> TRUE, start |-> Some(c), stop |-> None]

\* Ntree._parse_coords: the ranges of the call, axes beyond len(coords)
\* keeping the tree's range.  self.dims = None fails the assert; a scalar
\* reads self.max_level, which an Ntree does not have.
ParseCoords(t, coords) ==
  IF IsNone(t.dims) \/ Len(coords) > t.dims.val
  THEN [status |-> "AssertionError", ranges |-> <<>>]
  ELSE IF \E i \in 1..Len(coords) : coords[i].scalar
  THEN [status |-> "AttributeError", ranges |-> <<>>]
  ELSE [status |-> "ok",
        ranges |-> [i \in 1..Len(t.ranges) |->
           IF i <= Len(coords)
           THEN <<IF IsNone(coords[i].start) THEN t.ranges[i][1] ELSE coords[i].start.val,
                  IF IsNone(coords[i].stop) THEN t.ranges[i][2] ELSE coords[i].stop.val>>
           ELSE t.ranges[i]]]

\* The rows [start, end] of _parse_coords as the slices Node.__getitem__
\* reads, stepping by the tree's resolution.
AsSlices(t, ranges) ==
  [i \in 1..Len(ranges) |->
     [start |-> ranges[i][1], stop |-> ranges[i][2], step |-> t.resolution[i]]]

\* The body shared by Ntree.__getitem__, Ntree.__setitem__ and
\* Ntree.__delitem__: parse the coordinates, then self.root.__getitem__.
RootGetItem(t, coords) ==
  LET p == ParseCoords(t, coords)
  IN IF p.status # "ok" THEN [status |-> p.status, arr |-> <<>>, tree |-> t]
     ELSE LET r == GetItem(t.root, AsSlices(t, p.ranges))
          IN [status |-> IF r.ok THEN "ok" ELSE "TypeError", arr |-> r.arr, tree |-> t]

\* Ntree.__getitem__
NtreeGetItem(t, coords) == RootGetItem(t, coords)

\* Ntree.__setitem__(self, coords): takes no value and returns
\* self.root.__getitem__(coords).
NtreeSetItem(t, coords) == RootGetItem(t, coords)

\* Ntree.__delitem__: returns self.root.__getitem__(coords).
NtreeDelItem(t, coords) == RootGetItem(t, coords)

\* ---------------------------------------------------------- state machine
\* tree is the Ntree object, last the kind and outcome of the last call,
\* call the arguments of a constructor call, dense the reference array of
\* SpecRef.
AttrVecs == {<<v>> : v \in 0..MaxVal}
dflt == <<0>>

\* The ranges of the tree: 4 x 4 units.  With max_depth = 1 a finest cell is
\* 2 x 2 units; with max_depth = 2 it is one unit.
TreeRanges == <<<<0, 4>>, <<0, 4>>>>

\* The boxes the calls use: the whole tree, its left half, its first
\* quadrant, and a unit box and a column inside the first quadrant.
Boxes ==
  {<<<<0, 4>>, <<0, 4>>>>, <<<<0, 2>>, <<0, 4>>>>, <<<<0, 2>>, <<0, 2>>>>,
   <<<<0, 1>>, <<0, 1>>>>, <<<<0, 1>>, <<0, 2>>>>}

Regions(t) == {AsSlices(t, b) : b \in Boxes}

Constructed(nd) ==
  NtreeNew(Some(TreeRanges), None, [scalar |-> FALSE, val |-> dflt], nd, MaxDepth).tree

Init ==
  /\ \E nd \in {None, Some(2)} : tree = Constructed(nd)
  /\ last = [op |-> "new", status |-> "ok"]
  /\ call = None
  /\ dense = None

\* tree.root.__setitem__(coords, value)
NodeSet ==
  /\ \E R \in Regions(tree), A \in AttrVecs :
       tree' = [tree EXCEPT !.root = SetItem(tree.root, R, A)]
  /\ last' = [op |-> "node_set", status |-> "ok"]
  /\ UNCHANGED <<call, dense>>

\* tree.root.__getitem__(coords)
NodeGet ==
  /\ \E R \in Regions(tree) :
       last' = [op |-> "node_get",
                status |-> IF GetItem(tree.root, R).ok THEN "ok" ELSE "TypeError"]
  /\ UNCHANGED <<tree, call, dense>>

\* The coordinates of a box as a call passes them: one slice per axis.
CoordsOf(b) == [i \in 1..Len(b) |-> Slice(Some(b[i][1]), Some(b[i][2]))]

\* Coordinates that reach outside the tree's ranges: partly and entirely.
OutCoords ==
  {<<Slice(Some(0 - 2), Some(2)), Slice(Some(0), Some(4))>>,
   <<Slice(Some(2), Some(6))>>,
   <<Slice(Some(4), Some(6)), Slice(Some(0), Some(2))>>}

\* The coordinates of the calls on the Ntree object: boxes, slices with a
\* side left out, fewer coordinates than axes, none at all, a scalar, more
\* coordinates than axes, and coordinates outside the ranges.
CallCoords ==
  {CoordsOf(b) : b \in Boxes}
    \cup {<<>>, <<Slice(None, Some(2))>>, <<Slice(Some(2), None), Slice(None, None)>>,
          <<Scalar(0)>>, <<Slice(None, None), Slice(None, None), Slice(None, None)>>}
    \cup OutCoords

\* tree[coords]
TreeGet ==
  /\ \E c \in CallCoords :
       LET r == NtreeGetItem(tree, c)
       IN /\ tree' = r.tree
          /\ last' = [op |-> "get", status |-> r.status]
  /\ UNCHANGED <<call, dense>>

\* tree.__setitem__(coords): the method has no parameter for the value.
TreeSet ==
  /\ \E c \in CallCoords :
       LET r == NtreeSetItem(tree, c)
       IN /\ tree' = r.tree
          /\ last' = [op |-> "set", status |-> r.status]
  /\ UNCHANGED <<call, dense>>

\* del tree[coords]
TreeDel ==
  /\ \E c \in CallCoords :
       LET r == NtreeDelItem(tree, c)
       IN /\ tree' = r.tree
          /\ last' = [op |-> "del", status |-> r.status]
  /\ UNCHANGED <<call, dense>>

Next == NodeSet \/ NodeGet \/ TreeGet \/ TreeSet \/ TreeDel

Spec == Init /\ [][Next]_vars

\* The write path alone, on the tree the constructor's defaults give.
InitWrite ==
  /\ tree = Constructed(None)
  /\ last = [op |-> "new", status |-> "ok"]
  /\ call = None
  /\ dense = None

SpecWrite == InitWrite /\ [][NodeSet]_vars

\* The finest cells of the tree, span / 2^max_depth wide on every axis.
CellSize(t, i) == (t.ranges[i][2] - t.ranges[i][1]) \div Pow2(t.max_depth)
CellOrigins(t, i) ==
  {a \in t.ranges[i][1]..(t.ranges[i][2] - 1) : (a - t.ranges[i][1]) % CellSize(t, i) = 0}
CellAt(t, x, y) ==
  AsSlices(t, <<<<x, x + CellSize(t, 1)>>, <<y, y + CellSize(t, 2)>>>>)
CellAligned(t, R) ==
  \A i \in 1..Len(R) : /\ (R[i].start - t.ranges[i][1]) % CellSize(t, i) = 0
                       /\ (R[i].stop - t.ranges[i][1]) % CellSize(t, i) = 0
Inside(c, R) == \A i \in 1..Len(R) : R[i].start <= c[i].start /\ c[i].stop <= R[i].stop

\* Writes against a dense reference array: dense maps the origin of every
\* finest cell to the vector of the last write that covers the cell.
RefBoxes == Boxes \cup {<<<<2, 4>>, <<0, 4>>>>, <<<<2, 4>>, <<2, 4>>>>}
RefRegions(t) == {R \in {AsSlices(t, b) : b \in RefBoxes} : CellAligned(t, R)}

InitRef ==
  /\ tree = Constructed(Some(2))
  /\ last = [op |-> "new", status |-> "ok"]
  /\ call = None
  /\ dense = [p \in CellOrigins(tree, 1) \X CellOrigins(tree, 2) |-> tree.dflt_attrs]

Written(t, d, R, A) ==
  [p \in DOMAIN d |-> IF Inside(CellAt(t, p[1], p[2]), R) THEN A ELSE d[p]]

\* tree.root.__setitem__(coords, value) on a cell-aligned region
RefSet ==
  /\ \E R \in RefRegions(tree), A \in AttrVecs :
       /\ tree' = [tree EXCEPT !.root = SetItem(tree.root, R, A)]
       /\ dense' = Written(tree, dense, R, A)
  /\ last' = [op |-> "node_set", status |-> "ok"]
  /\ UNCHANGED call

\* del tree[coords] on a cell-aligned region
RefDel ==
  /\ \E b \in RefBoxes :
       /\ CellAligned(tree, AsSlices(tree, b))
       /\ LET r == NtreeDelItem(tree, CoordsOf(b))
          IN /\ tree' = r.tree
             /\ last' = [op |-> "del", status |-> r.status]
             /\ dense' = IF r.status = "ok"
                         THEN Written(tree, dense, AsSlices(tree, b), tree.dflt_attrs)
                         ELSE dense
  /\ UNCHANGED call

SpecRef == InitRef /\ [][RefSet \/ RefDel]_vars

\* Construction: call holds the arguments of Ntree(...), then the call is
\* made.
\* The ranges of the tree of __main__: 100 x 100 units.
MainRanges == <<<<0, 100>>, <<0, 100>>>>
RangesArgs ==
  {None, Some(<<>>), Some(<<<<0, 4>>>>), Some(TreeRanges), Some(<<<<0, 0>>>>),
   Some(<<<<4, 0>>>>), Some(<<<<0, 4>>, <<2, 2>>>>), Some(MainRanges)}
ResolutionArgs == {None, Some(0), Some(1), Some(2), Some(8), Some(10)}
AttrsArgs == {[scalar |-> TRUE, val |-> <<0>>]}
               \cup {[scalar |-> FALSE, val |-> v] : v \in {<<>>, <<0>>, <<0, 0>>}}
DimsArgs == {None, Some(1), Some(2)}
DepthArgs == 0..(MaxDepth + 1)

InitNew ==
  /\ call \in [ranges : RangesArgs, resolution : ResolutionArgs, attrs : AttrsArgs,
               n_dimensions : DimsArgs, max_depth : DepthArgs]
  /\ tree = NoTree
  /\ last = [op |-> "none", status |-> "none"]
  /\ dense = None

\* Ntree(ranges, resolution, attrs, n_dimensions, max_depth)
New ==
  /\ last.op = "none"
  /\ LET r == NtreeNew(call.ranges, call.resolution, call.attrs,
                       call.n_dimensions, call.max_depth)
     IN /\ tree' = r.tree
        /\ last' = [op |-> "new", status |-> r.status]
  /\ UNCHANGED <<call, dense>>

SpecNew == InitNew /\ [][New]_vars

\* ------------------------------------------------------------ properties
\* The regions the properties try from every reachable state: the boxes of
\* the calls, the right half, another unit box and a box that straddles two
\* quadrants.
ProbeBoxes ==
  Boxes \cup {<<<<2, 4>>, <<0, 4>>>>, <<<<1, 2>>, <<1, 2>>>>, <<<<1, 3>>, <<0, 1>>>>}
Probes(t) == {AsSlices(t, b) : b \in ProbeBoxes}
Full(t) == AsSlices(t, t.ranges)

IsLeaf(node) == node.nodes = <<>>

RECURSIVE Minimal(_)
Minimal(node) ==
  \/ IsLeaf(node)
  \/ /\ ~ \A k \in 1..Len(node.nodes) :
             IsLeaf(node.nodes[k]) /\ node.nodes[k].attrs = node.nodes[1].attrs
     /\ \A k \in 1..Len(node.nodes) : Minimal(node.nodes[k])

\* Every cell of an array of d axes equals the vector A.
RECURSIVE AllEq(_, _, _)
AllEq(arr, d, A) ==
  IF d = 0 THEN arr = A ELSE \A r \in 1..Len(arr) : AllEq(arr[r], d - 1, A)

\* C1 (minimality): in every reachable state no node with children has only
\* childless children that all hold the same attribute vector.
C1_Minimality == Minimal(tree.root)

\* C1 witness: a write has left a node with children below the root.
C1_Witness ==
  /\ last.op = "node_set"
  /\ ~IsLeaf(tree.root)
  /\ \E k \in 1..Len(tree.root.nodes) : ~IsLeaf(tree.root.nodes[k])

\* C5 (idempotence): from every reachable state, writing a region with a
\* vector a second time leaves the tree the first write produced.
C5_Idempotent ==
  \A R \in Probes(tree), A \in AttrVecs :
     LET once == SetItem(tree.root, R, A)
     IN SetItem(once, R, A) = once

\* C5 witness: a write has acted, and some write of a probe region changes
\* the tree it finds while a repetition of it does not.
C5_Witness ==
  /\ last.op = "node_set"
  /\ \E R \in Probes(tree), A \in AttrVecs :
       LET once == SetItem(tree.root, R, A)
       IN once # tree.root /\ ~IsLeaf(once) /\ SetItem(once, R, A) = once

\* What get reads for the finest cell at origin p: the cell's entry in the
\* read of the whole tree or, when np.tile rejects that read, the read of
\* the cell alone.
CellReads(t, root) ==
  LET whole == GetItem(root, Full(t))
  IN [p \in CellOrigins(t, 1) \X CellOrigins(t, 2) |->
        IF whole.ok
        THEN [ok |-> TRUE,
              arr |-> <<<<whole.arr[(p[1] - t.ranges[1][1]) \div CellSize(t, 1) + 1]
                                  [(p[2] - t.ranges[2][1]) \div CellSize(t, 2) + 1]>>>>]
        ELSE GetItem(root, CellAt(t, p[1], p[2]))]

RECURSIVE DepthOk(_)
DepthOk(node) ==
  /\ node.level <= node.max_level
  /\ node.level = node.max_level => IsLeaf(node)
  /\ \A k \in 1..Len(node.nodes) : DepthOk(node.nodes[k])

\* C2 (round trip): from every reachable state, setting a region of the
\* tree to a vector and getting the region returns an array whose every
\* cell is the vector.
C2_RoundTrip ==
  \A b \in ProbeBoxes, A \in AttrVecs :
     LET t1 == NtreeSetItem(tree, CoordsOf(b)).tree
         g == NtreeGetItem(t1, CoordsOf(b))
     IN g.status = "ok" /\ AllEq(g.arr, 2, A)

\* C3 (last write wins): after any writes and deletes of cell-aligned
\* regions, the read of the whole tree holds, for every finest cell, the
\* vector of the last write that covers it, low cells first on every axis.
C3_LastWriteWins ==
  LET g == GetItem(tree.root, Full(tree))
  IN /\ g.ok
     /\ \A p \in DOMAIN dense :
           g.arr[(p[1] - tree.ranges[1][1]) \div CellSize(tree, 1) + 1]
                [(p[2] - tree.ranges[2][1]) \div CellSize(tree, 2) + 1] = dense[p]

\* C4 (delete is default): from every reachable state, deleting a region
\* leaves the tree that writing the default vector to the region through
\* the split and merge path leaves.
C4_DeleteIsDefault ==
  \A b \in ProbeBoxes :
     NtreeDelItem(tree, CoordsOf(b)).tree.root
       = SetItem(tree.root, AsSlices(tree, b), tree.dflt_attrs)

\* C6 (depth floor): in every reachable state no node lies deeper than
\* max_depth and every node at max_depth has no children.
C6_DepthFloor == DepthOk(tree.root)

\* C7 (promote to leaf): from every reachable state, writing a vector to
\* the whole of the tree's ranges leaves a root without children that holds
\* the vector.
C7_PromoteToLeaf ==
  \A A \in AttrVecs :
     LET r == SetItem(tree.root, Full(tree), A)
     IN IsLeaf(r) /\ r.attrs = A /\ r.level = tree.root.level

\* C8 (out of bounds): from every reachable state, a get, set or delete of
\* a region that reaches outside the tree's ranges fails with
\* OutOfBoundsError and leaves the tree as it was.
C8_OutOfBounds ==
  \A c \in OutCoords :
     /\ NtreeGetItem(tree, c).status = "OutOfBoundsError"
     /\ NtreeSetItem(tree, c).status = "OutOfBoundsError"
     /\ NtreeDelItem(tree, c).status = "OutOfBoundsError"
     /\ NtreeSetItem(tree, c).tree = tree
     /\ NtreeDelItem(tree, c).tree = tree

\* The arguments the constructor is to refuse: no axis, or an axis whose
\* span is not positive.  (The attribute arity is len(attrs): the call has
\* no separate arity that could differ.)
BadArgs(c) ==
  /\ ~IsNone(c.ranges)
  /\ \/ c.ranges.val = <<>>
     \/ \E i \in 1..Len(c.ranges.val) : c.ranges.val[i][2] - c.ranges.val[i][1] <= 0

\* C9 (construction validation): a construction with no axis or with a
\* span that is not positive fails with ConfigError and yields no tree, and
\* a construction that succeeds has neither.
C9_ConstructionValidated ==
  last.op = "new" =>
     /\ BadArgs(call) => (last.status = "ConfigError" /\ tree = NoTree)
     /\ last.status = "ok" => ~BadArgs(call)

\* The number of finest cells a cell-aligned box covers on axis i.
CellCount(t, b, i) == (b[i][2] - b[i][1]) \div CellSize(t, i)

\* C11 (get shape with repetition): from every reachable state, the get of a
\* cell-aligned region inside the tree's ranges returns an array whose extent
\* on each axis is the number of finest cells the region covers on the axis.
C11_GetShape ==
  \A b \in {x \in ProbeBoxes : CellAligned(tree, AsSlices(tree, x))} :
     LET g == NtreeGetItem(tree, CoordsOf(b))
     IN /\ g.status = "ok"
        /\ Len(g.arr) = CellCount(tree, b, 1)
        /\ \A r \in 1..Len(g.arr) : Len(g.arr[r]) = CellCount(tree, b, 2)

\* C12 (coverage tiling): a tree constructed over [0,100) x [0,100) with
\* resolution 10 and never written reads back, over its whole ranges, as a
\* 10 x 10 array of the default vector.
C12_CoverageTiling ==
  (last.op = "new" /\ call.ranges = Some(MainRanges) /\ call.resolution = Some(10)) =>
     LET g == NtreeGetItem(tree, CoordsOf(MainRanges))
     IN /\ last.status = "ok"
        /\ g.status = "ok"
        /\ Len(g.arr) = 10
        /\ \A r \in 1..Len(g.arr) : Len(g.arr[r]) = 10
        /\ AllEq(g.arr, 2, call.attrs.val)

\* The rational r equals span / 2^d.
ResEq(r, span, d) ==
  IF d >= 0 THEN r.num * Pow2(d) = span * r.den
  ELSE r.num = span * Pow2(0 - d) * r.den

\* C13 (precedence): a construction given ranges, a resolution and a
\* max_depth yields a tree with that max_depth and the resolution
\* span / 2^max_depth; a construction given neither ranges nor resolution
\* yields a tree whose resolution is 1 on every axis.
C13_Precedence ==
  (last.op = "new" /\ ~call.attrs.scalar) =>
     /\ (~IsNone(call.ranges) /\ ~BadArgs(call) /\ ~IsNone(call.resolution)) =>
           /\ last.status = "ok"
           /\ tree.max_depth = call.max_depth
           /\ \A i \in 1..Len(tree.ranges) :
                 ResEq(tree.resolution[i], Spans(tree.ranges)[i], call.max_depth)
     /\ (IsNone(call.ranges) /\ IsNone(call.resolution)) =>
           /\ last.status = "ok"
           /\ tree.resolution # <<>>
           /\ \A i \in 1..Len(tree.resolution) :
                 tree.resolution[i].num = tree.resolution[i].den

\* C14 (resolution consistency): every tree a construction yields stores, on
\* every axis, the resolution span / 2^max_depth.
C14_ResolutionConsistent ==
  (last.op = "new" /\ last.status = "ok") =>
     \A i \in 1..Len(tree.ranges) :
        ResEq(tree.resolution[i], Spans(tree.ranges)[i], tree.max_depth)

\* The ranges a call's coordinates stand for: a scalar c is the finest cell
\* [c, c + span / 2^max_depth), a slice side left out is the tree's bound,
\* an axis without a coordinate is the tree's whole range.
Normalized(t, coords) ==
  [i \in 1..Len(t.ranges) |->
     IF i > Len(coords) THEN t.ranges[i]
     ELSE IF coords[i].scalar
     THEN <<coords[i].start.val, coords[i].start.val + CellSize(t, i)>>
     ELSE <<IF IsNone(coords[i].start) THEN t.ranges[i][1] ELSE coords[i].start.val,
            IF IsNone(coords[i].stop) THEN t.ranges[i][2] ELSE coords[i].stop.val>>]

\* C15 (coordinate normalization): in every reachable state, the
\* coordinates of a call with no more coordinates than axes, inside the
\* tree's ranges, are parsed to the ranges they stand for.
C15_Normalization ==
  \A c \in {x \in CallCoords \ OutCoords : Len(x) <= Len(tree.ranges)} :
     LET p == ParseCoords(tree, c)
     IN p.status = "ok" /\ p.ranges = Normalized(tree, c)

\* Every node has no children or 2^D of them, D the number of its axes.
RECURSIVE Arity(_)
Arity(node) ==
  \/ IsLeaf(node)
  \/ /\ Len(node.nodes) = Pow2(Len(node.ranges))
     /\ \A k \in 1..Len(node.nodes) : Arity(node.nodes[k])

\* Every node the region R contains has no children and holds A.
RECURSIVE Overwritten(_, _, _)
Overwritten(node, R, A) ==
  IF ContainedBy(node, R) THEN IsLeaf(node) /\ node.attrs = A
  ELSE \A k \in 1..Len(node.nodes) : Overwritten(node.nodes[k], R, A)

\* C16 (leaf xor internal): in every reachable state every node has no
\* children or 2^D children, and a write leaves every node its region
\* contains without children, holding the written vector.
C16_LeafXorInternal ==
  /\ Arity(tree.root)
  /\ \A R \in Probes(tree), A \in AttrVecs :
        Overwritten(SetItem(tree.root, R, A), R, A)

\* The region R reaches inside the node's ranges on every axis.
Overlaps(node, R) ==
  \A i \in 1..Len(node.ranges) :
     R[i].start < node.ranges[i][2] /\ node.ranges[i][1] < R[i].stop

\* Every node at max_level that R reaches has no children and holds A.
RECURSIVE Floored(_, _, _)
Floored(node, R, A) ==
  /\ (node.level = node.max_level /\ Overlaps(node, R)) =>
        (IsLeaf(node) /\ node.attrs = A)
  /\ \A k \in 1..Len(node.nodes) : Floored(node.nodes[k], R, A)

\* C20 (resolution floor): from every reachable state, a write leaves every
\* node at max_depth that its region reaches, wholly or partly, without
\* children and holding the written vector.
C20_ResolutionFloor ==
  \A R \in Probes(tree), A \in AttrVecs :
     Floored(SetItem(tree.root, R, A), R, A)

\* ------------------------------------------------------------------ split
\* Node._split on the root of a fresh tree of one or two axes.
SplitRanges == {<<<<0, 4>>>>, <<<<0, 8>>>>, TreeRanges, <<<<0, 4>>, <<0, 8>>>>}
SplitAttrs == AttrVecs \cup {<<v, w>> : v, w \in 0..MaxVal}

InitSplit ==
  /\ \E r \in SplitRanges, a \in SplitAttrs, d \in DepthArgs :
        tree = NtreeNew(Some(r), None, [scalar |-> FALSE, val |-> a], Some(1), d).tree
  /\ last = [op |-> "new", status |-> "ok"]
  /\ call = None
  /\ dense = None

\* tree.root._split()
DoSplit ==
  /\ last.op = "new"
  /\ tree' = [tree EXCEPT !.root = Split(tree.root)]
  /\ last' = [op |-> "split", status |-> "ok"]
  /\ UNCHANGED <<call, dense>>

SpecSplit == InitSplit /\ [][DoSplit]_vars

\* C17 (split preserves data): a split of a node without children at depth
\* d leaves it 2^D children without children at depth d + 1 that hold the
\* node's vector, and, above max_depth, the read of the node's whole ranges
\* as it was.
C17_SplitPreserves ==
  [][last'.op = "split" =>
       /\ Len(tree'.root.nodes) = Pow2(Len(tree.root.ranges))
       /\ \A k \in 1..Len(tree'.root.nodes) :
             /\ IsLeaf(tree'.root.nodes[k])
             /\ tree'.root.nodes[k].level = tree.root.level + 1
             /\ tree'.root.nodes[k].attrs = tree.root.attrs
       /\ tree.root.level < tree.root.max_level =>
             GetItem(tree'.root, Full(tree)) = GetItem(tree.root, Full(tree))]_vars

\* The children of every node are 2^D and child k has the node's ranges cut
\* at the midpoint, the low or the high half on axis i as bit i of k says.
RECURSIVE Tiled(_)
Tiled(node) ==
  \/ IsLeaf(node)
  \/ LET D == Len(node.ranges)
         mid(i) == (node.ranges[i][1] + node.ranges[i][2]) \div 2
     IN /\ Len(node.nodes) = Pow2(D)
        /\ \A k \in 1..Len(node.nodes) :
              /\ Len(node.nodes[k].ranges) = D
              /\ \A i \in 1..D :
                    node.nodes[k].ranges[i] =
                       IF Bit(k, i, D) = 0 THEN <<node.ranges[i][1], mid(i)>>
                       ELSE <<mid(i), node.ranges[i][2]>>
              /\ Tiled(node.nodes[k])

\* C18 (children tile the parent): in every reachable state the children of
\* every node are its 2^D midpoint halves, one per low/high combination.
C18_ChildrenTile == Tiled(tree.root)

\* ------------------------------------------------------------------ merge
\* Node._merge on the root of an arbitrary tree two levels deep: every
\* child of the root has no children, or four children without children
\* whose first holds a and whose others hold b.
ChildShapes ==
  [leaf : {TRUE}, a : AttrVecs, b : {dflt}] \cup [leaf : {FALSE}, a : AttrVecs, b : AttrVecs]

Shaped(node, shape) ==
  IF shape.leaf THEN [node EXCEPT !.attrs = shape.a]
  ELSE [Split(node) EXCEPT !.nodes =
          [k \in 1..Len(@) |-> [@[k] EXCEPT !.attrs = IF k = 1 THEN shape.a ELSE shape.b]]]

InitMerge ==
  /\ \E f \in [1..4 -> ChildShapes] :
        LET t == NtreeNew(Some(TreeRanges), None, [scalar |-> FALSE, val |-> dflt],
                          None, MaxDepth + 1).tree
            r == Split(t.root)
        IN tree = [t EXCEPT !.root =
                     [r EXCEPT !.nodes = [k \in 1..Len(@) |-> Shaped(@[k], f[k])]]]
  /\ last = [op |-> "new", status |-> "ok"]
  /\ call = None
  /\ dense = None

\* tree.root._merge()
DoMerge ==
  /\ last.op = "new"
  /\ LET m == Merge(tree.root)
     IN /\ tree' = [tree EXCEPT !.root = m.node]
        /\ last' = [op |-> "merge", status |-> IF m.ok THEN "True" ELSE "False"]
  /\ UNCHANGED <<call, dense>>

SpecMerge == InitMerge /\ [][DoMerge]_vars

\* C19 (merge is post-order over every child): after _merge on any tree, no
\* node of the tree has only childless children that all hold the same
\* vector, and the call returned True exactly when the root has no children.
C19_MergeAll ==
  last.op = "merge" =>
     /\ Minimal(tree.root)
     /\ last.status = "True" <=> IsLeaf(tree.root)


\* C21 (derived depth): a tree constructed from ranges and a resolution has
\* as max_depth the least d >= 0 with 2^d >= span / resolution on every
\* axis.
C21_DerivedDepth ==
  (last.op = "new" /\ last.status = "ok" /\ ~IsNone(call.resolution)) =>
     LET d == tree.max_depth
         sp == Spans(tree.ranges)
         res == call.resolution.val
     IN /\ d >= 0
        /\ \A i \in 1..Len(sp) : res * Pow2(d) >= sp[i]
        /\ d = 0 \/ \E i \in 1..Len(sp) : res * Pow2(d - 1) < sp[i]


\* ------------------------------------------------------ calls step by step
\* The recursion of Node.__setitem__, Node.__getitem__ and Node._merge as a
\* call stack.  call is None between calls and otherwise holds the stack of
\* frames (innermost last), the value returned by the call that returned
\* last, and the value being written.  A frame is the method, the path of
\* child numbers from the root to its node, its coords, the number k of the
\* child its loop is at (0 before the loop) and whether it waits for the
\* call it made on that child.  dense keeps the root the call started from.
Frame(op, path, coords) ==
  [op |-> op, path |-> path, coords |-> coords, k |-> 0, wait |-> FALSE]

RECURSIVE NodeAt(_, _)
NodeAt(node, path) ==
  IF path = <<>> THEN node ELSE NodeAt(node.nodes[Head(path)], Tail(path))

RECURSIVE PutAt(_, _, _)
PutAt(node, path, new) ==
  IF path = <<>> THEN new
  ELSE [node EXCEPT !.nodes[Head(path)] = PutAt(@, Tail(path), new)]

\* The loop over the children that never moves to the next child.
AdvanceStuck(f) == f

\* for idx, s in np.ndenumerate(...) / for n in self.nodes.flatten(): on to
\* the next child.
Advance(f) == [f EXCEPT !.k = @ + 1, !.wait = FALSE]

\* One step of the innermost frame f on the tree with the given root:
\* the root, the frames that replace f, and the returned value.
StepSet(root, f, value) ==
  LET n == NodeAt(root, f.path)
  IN IF f.k = 0
     THEN IF n.level <= n.max_level /\ ~ContainedBy(n, f.coords)
          THEN [root |-> PutAt(root, f.path, IF n.nodes = <<>> THEN Split(n) ELSE n),
                top |-> <<Advance(f)>>, ret |-> TRUE]
          ELSE [root |-> PutAt(root, f.path, [n EXCEPT !.attrs = value]),
                top |-> <<>>, ret |-> TRUE]
     ELSE IF f.k <= Len(n.nodes)
     THEN LET sub == DividedRanges(n, f.coords)[f.k]
          IN [root |-> root,
              top |-> IF Intersects(sub)
                      THEN <<Advance(f), Frame("set", Append(f.path, f.k), sub)>>
                      ELSE <<Advance(f)>>,
              ret |-> TRUE]
     ELSE [root |-> root, top |-> <<Frame("merge", f.path, <<>>)>>, ret |-> TRUE]

StepMerge(root, f, ret) ==
  LET n == NodeAt(root, f.path)
  IN IF f.k = 0
     THEN IF n.nodes = <<>> THEN [root |-> root, top |-> <<>>, ret |-> TRUE]
          ELSE [root |-> root, top |-> <<Advance(f)>>, ret |-> TRUE]
     ELSE IF f.k <= Len(n.nodes)
     THEN IF ~f.wait
          THEN [root |-> root,
                top |-> <<[f EXCEPT !.wait = TRUE],
                          Frame("merge", Append(f.path, f.k), <<>>)>>,
                ret |-> TRUE]
          ELSE IF ret THEN [root |-> root, top |-> <<Advance(f)>>, ret |-> TRUE]
               ELSE [root |-> root, top |-> <<>>, ret |-> FALSE]
     ELSE LET cmp_val == n.nodes[1].attrs
          IN IF \A j \in 1..Len(n.nodes) : n.nodes[j].attrs = cmp_val
             THEN [root |-> PutAt(root, f.path,
                                  [n EXCEPT !.attrs = cmp_val, !.nodes = <<>>]),
                   top |-> <<>>, ret |-> TRUE]
             ELSE [root |-> root, top |-> <<>>, ret |-> FALSE]

\* Node.__getitem__ that resets the attributes of the childless node it reads.
StepGetClears(root, f) ==
  LET n == NodeAt(root, f.path)
  IN IF f.k = 0
     THEN [root |-> IF n.nodes = <<>> THEN PutAt(root, f.path, [n EXCEPT !.attrs = dflt])
                    ELSE root,
           top |-> IF n.nodes = <<>> THEN <<>> ELSE <<Advance(f)>>, ret |-> TRUE]
     ELSE IF f.k <= Len(n.nodes)
     THEN [root |-> root,
           top |-> <<Advance(f),
                     Frame("get", Append(f.path, f.k), DividedRanges(n, f.coords)[f.k])>>,
           ret |-> TRUE]
     ELSE [root |-> root, top |-> <<>>, ret |-> TRUE]

\* Node.__getitem__ and Node._get_nodes: a childless node returns its tile,
\* a node with children reads every child and returns the block.
StepGet(root, f) ==
  LET n == NodeAt(root, f.path)
  IN IF f.k = 0
     THEN [root |-> root, top |-> IF n.nodes = <<>> THEN <<>> ELSE <<Advance(f)>>,
           ret |-> TRUE]
     ELSE IF f.k <= Len(n.nodes)
     THEN [root |-> root,
           top |-> <<Advance(f),
                     Frame("get", Append(f.path, f.k), DividedRanges(n, f.coords)[f.k])>>,
           ret |-> TRUE]
     ELSE [root |-> root, top |-> <<>>, ret |-> TRUE]


\* The boxes of the calls made step by step: the whole tree, its first
\* quadrant and a unit box in it; and the coordinates of the calls on the
\* Ntree object: these boxes, no coordinate, and a scalar.
RunBoxes == {<<<<0, 4>>, <<0, 4>>>>, <<<<0, 2>>, <<0, 2>>>>, <<<<0, 1>>, <<0, 1>>>>}
RunCoords == {CoordsOf(b) : b \in RunBoxes} \cup {<<>>, <<Scalar(0)>>}

InitRun ==
  /\ tree = Constructed(Some(2))
  /\ last = [op |-> "new", status |-> "ok"]
  /\ call = None
  /\ dense = None

Started(op, coords, value) ==
  /\ call' = Some([stack |-> <<Frame(op, <<>>, coords)>>, ret |-> TRUE, value |-> value])
  /\ dense' = Some(tree.root)
  /\ UNCHANGED tree

\* tree.root.__setitem__(coords, value) is called
RunSet ==
  /\ IsNone(call)
  /\ \E b \in RunBoxes, A \in AttrVecs : Started("set", AsSlices(tree, b), A)
  /\ last' = [op |-> "node_set", status |-> "running"]

\* tree[coords], tree.__setitem__(coords) or del tree[coords] is called:
\* all three parse the coordinates and call self.root.__getitem__.
RunTree ==
  /\ IsNone(call)
  /\ \E op \in {"get", "set", "del"}, c \in RunCoords :
        LET p == ParseCoords(tree, c)
        IN IF p.status = "ok"
           THEN /\ Started("get", AsSlices(tree, p.ranges), dflt)
                /\ last' = [op |-> op, status |-> "running"]
           ELSE /\ last' = [op |-> op, status |-> p.status]
                /\ UNCHANGED <<tree, call, dense>>

\* tree.root._merge() is called
RunMerge ==
  /\ IsNone(call)
  /\ Started("merge", <<>>, dflt)
  /\ last' = [op |-> "merge", status |-> "running"]

\* The innermost call takes its next step; the outermost call returning
\* ends the call.
Step ==
  /\ ~IsNone(call)
  /\ LET st == call.val.stack
         f == st[Len(st)]
         r == IF f.op = "set" THEN StepSet(tree.root, f, call.val.value)
              ELSE IF f.op = "merge" THEN StepMerge(tree.root, f, call.val.ret)
              ELSE StepGet(tree.root, f)
         stack == SubSeq(st, 1, Len(st) - 1) \o r.top
     IN /\ tree' = [tree EXCEPT !.root = r.root]
        /\ IF stack = <<>>
           THEN /\ call' = None
                /\ dense' = None
                /\ last' = [last EXCEPT !.status = "ok"]
           ELSE /\ call' = Some([call.val EXCEPT !.stack = stack, !.ret = r.ret])
                /\ UNCHANGED <<dense, last>>

NextRun == RunSet \/ RunTree \/ RunMerge \/ Step

\* A call in progress is not suspended: its next step is taken.
SpecRun == InitRun /\ [][NextRun]_vars /\ WF_vars(Step)

\* C22 (termination): every get, set, delete and merge call that has
\* started returns.
C22_Terminates == (~IsNone(call)) ~> IsNone(call)

\* C22 witness: a write is three calls deep in a tree whose root had children
\* before the call.
C22_Witness ==
  /\ ~IsNone(call)
  /\ last.op = "node_set"
  /\ Len(call.val.stack) >= 3
  /\ dense.val.nodes # <<>>


\* C23 (get is read-only): no step of a get call changes the tree, and every
\* region reads after the step as it read before.
C23_GetReadOnly ==
  [][last'.op = "get" =>
       /\ tree' = tree
       /\ \A b \in ProbeBoxes :
             GetItem(tree'.root, AsSlices(tree', b)) = GetItem(tree.root, AsSlices(tree, b))]_vars

\* C23 witness: a get call is reading a child of a root that holds a value
\* other than the default.
C23_Witness ==
  /\ last.op = "get"
  /\ ~IsNone(call)
  /\ Len(call.val.stack) >= 2
  /\ \E k \in 1..Len(tree.root.nodes) : tree.root.nodes[k].attrs # dflt


(***************************************************************************)
(* stl_to_amf.py: the Amf mesh.  In SpecAmf the variable `tree` holds the  *)
(* list objects of the interpreter (heap), `call` the Amf instances made   *)
(* so far (their two fields are references into the heap), `dense` the     *)
(* arguments each instance was constructed with and `last` the last call.  *)
(***************************************************************************)

MaxVolumes == 2
MaxAmfs == 2

\* float(i) of a coordinate token of a vertex line.
Float(tok) ==
  CASE tok = "0" -> 0
    [] tok = "0.0" -> 0
    [] tok = "1" -> 1
    [] tok = "1.0" -> 1

\* Triangle.__init__
Triangle(v1, v2, v3) == [v1 |-> v1, v2 |-> v2, v3 |-> v3]

\* Vertex.__init__
Vertex(x, y, z) == [coordinates |-> <<x, y, z>>]

\* Vertex.__eq__
VertexEq(self, coordinates) == self.coordinates = coordinates

\* Volume.__init__
Volume(triangles, metadata) == [triangles |-> triangles, metadata |-> metadata]

\* A search that never finds the point.
VerticesIndexMissing(vertices, coordinates) == None

\* self.vertices.index([x, y, z]): the position of the first vertex equal to
\* the coordinates, counted from 0; None stands for the ValueError.
VerticesIndex(vertices, coordinates) ==
  LET found == {i \in 1..Len(vertices) : VertexEq(vertices[i], coordinates)}
  IN IF found = {} THEN None
     ELSE Some((CHOOSE i \in found : \A j \in found : i <= j) - 1)

RECURSIVE AddVertexs(_, _, _)

\* The loop over the vertex lines of one facet.
AddVertexs(vertices, vertexs, temp_v) ==
  IF vertexs = <<>> THEN [vertices |-> vertices, temp_v |-> temp_v]
  ELSE LET vertex == Head(vertexs)
           x == Float(vertex[1])
           y == Float(vertex[2])
           z == Float(vertex[3])
           found == VerticesIndex(vertices, <<x, y, z>>)
       IN IF IsNone(found)
          THEN LET appended == Append(vertices, Vertex(x, y, z))
               IN AddVertexs(appended, Tail(vertexs), Append(temp_v, Len(appended) - 1))
          ELSE AddVertexs(vertices, Tail(vertexs), Append(temp_v, found.val))

RECURSIVE AddFacets(_, _, _)

\* The loop over the facets of the file; Triangle(*temp_v) raises TypeError
\* unless the facet has three vertex lines.
AddFacets(vertices, facets, triangles) ==
  IF facets = <<>>
  THEN [status |-> "ok", vertices |-> vertices, triangles |-> triangles]
  ELSE LET r == AddVertexs(vertices, Head(facets), <<>>)
       IN IF Len(r.temp_v) # 3
          THEN [status |-> "TypeError", vertices |-> r.vertices, triangles |-> triangles]
          ELSE AddFacets(r.vertices, Tail(facets),
                         Append(triangles, Triangle(r.temp_v[1], r.temp_v[2], r.temp_v[3])))

\* Amf.append_stl on the lists self.vertices and self.volumes.
AmfAppendStl(vertices, volumes, facets, metadata) ==
  LET r == AddFacets(vertices, facets, <<>>)
  IN [status |-> r.status,
      vertices |-> r.vertices,
      volumes |-> IF r.status = "ok" THEN Append(volumes, Volume(r.triangles, metadata))
                  ELSE volumes]

\* The lists of the default arguments volumes=[] and vertices=[], made once
\* when the def statement of Amf.__init__ runs.
DefaultVolumes == 1
DefaultVertices == 2

\* Amf.__init__: the instance keeps the lists it was given; an argument left
\* out is the list of the default.
AmfNew(heap, volumes, vertices) ==
  LET h1 == IF IsNone(volumes) THEN heap ELSE Append(heap, volumes.val)
      vol == IF IsNone(volumes) THEN DefaultVolumes ELSE Len(h1)
      h2 == IF IsNone(vertices) THEN h1 ELSE Append(h1, vertices.val)
      ver == IF IsNone(vertices) THEN DefaultVertices ELSE Len(h2)
  IN [heap |-> h2, amf |-> [volumes |-> vol, vertices |-> ver]]

\* Vertex lines of the files: two points, one of them written in two ways.
P0 == <<"0", "0", "0">>
P0b == <<"0.0", "0", "0">>
P1 == <<"1.0", "0", "1">>

\* The facets of the files, as re.findall returns them: two facets on the
\* same points, and a facet with two vertex lines.
Facet1 == <<P0, P1, P1>>
Facet2 == <<P1, P1, P0b>>
FacetShort == <<P0, P1>>

\* The files read: an empty solid, one facet, two facets, and a malformed
\* facet after a good one.
StlFiles == {<<>>, <<Facet1>>, <<Facet2>>, <<Facet2, Facet1>>, <<Facet1, FacetShort>>}

Metadatas == {None}

ListArgs == {None, Some(<<>>)}

Vertices(a) == tree[call[a].vertices]

RECURSIVE Appended(_)

\* The number of volumes in the lists of the given references.
Appended(ids) ==
  IF ids = {} THEN 0
  ELSE LET id == CHOOSE i \in ids : TRUE
       IN Len(tree[id]) + Appended(ids \ {id})

Volumes(a) == tree[call[a].volumes]

InitAmf ==
  /\ tree = <<<<>>, <<>>>>
  /\ call = <<>>
  /\ dense = <<>>
  /\ last = [op |-> "def", status |-> "ok", amf |-> 0, facets |-> <<>>]

\* amf = Amf(...)
NewAmf ==
  \E volumes \in ListArgs, vertices \in ListArgs :
    LET r == AmfNew(tree, volumes, vertices)
    IN /\ Len(call) < MaxAmfs
       /\ tree' = r.heap
       /\ call' = Append(call, r.amf)
       /\ dense' = Append(dense, [volumes |-> volumes, vertices |-> vertices])
       /\ last' = [op |-> "new", status |-> "ok", amf |-> Len(call) + 1, facets |-> <<>>]

\* amf.append_stl(file_path, metadata)
AppendStl ==
  \E a \in 1..Len(call), facets \in StlFiles, metadata \in Metadatas :
    LET r == AmfAppendStl(Vertices(a), Volumes(a), facets, metadata)
    IN /\ Appended({call[b].volumes : b \in 1..Len(call)}) < MaxVolumes
       /\ tree' = [tree EXCEPT ![call[a].vertices] = r.vertices,
                               ![call[a].volumes] = r.volumes]
       /\ last' = [op |-> "append_stl", status |-> r.status, amf |-> a, facets |-> facets]
       /\ UNCHANGED <<call, dense>>

NextAmf == NewAmf \/ AppendStl

SpecAmf == InitAmf /\ [][NextAmf]_vars

\* The coordinates parsed for vertex line k of a facet.
Parsed(facet, k) == <<Float(facet[k][1]), Float(facet[k][2]), Float(facet[k][3])>>

\* The vertex indices of a triangle, in order.
Corners(t) == <<t.v1, t.v2, t.v3>>

\* The instance holds lists that no other instance holds.
Alone(a) ==
  \A b \in 1..Len(call) :
     b # a => {call[b].volumes, call[b].vertices} \cap {call[a].volumes, call[a].vertices} = {}

\* C24 (mesh well-formedness): every append_stl call on an Amf whose lists
\* are its own leaves it with (i) no two vertices of equal coordinates,
\* (ii) every triangle of every volume referencing existing vertices, the
\* triangles of the new volume referencing the coordinates parsed for their
\* facets, (iii) the old vertices at their old indices, and (iv) exactly one
\* more volume when it returns.
C24_MeshWellFormed ==
  [][(last'.op = "append_stl" /\ Alone(last'.amf)) =>
       LET a == last'.amf
           vs == tree'[call'[a].vertices]
           vols == tree'[call'[a].volumes]
       IN /\ \A i, j \in 1..Len(vs) : vs[i].coordinates = vs[j].coordinates => i = j
          /\ \A v \in 1..Len(vols) : \A t \in 1..Len(vols[v].triangles) : \A k \in 1..3 :
                Corners(vols[v].triangles[t])[k] \in 0..(Len(vs) - 1)
          /\ last'.status = "ok" =>
                LET new == vols[Len(vols)].triangles
                IN /\ Len(new) = Len(last'.facets)
                   /\ \A t \in 1..Len(new) : \A k \in 1..3 :
                         vs[Corners(new[t])[k] + 1].coordinates = Parsed(last'.facets[t], k)
          /\ Len(vs) >= Len(Vertices(a))
          /\ \A i \in 1..Len(Vertices(a)) : vs[i] = Vertices(a)[i]
          /\ last'.status = "ok" => Len(vols) = Len(Volumes(a)) + 1
          /\ last'.status = "ok" => \A v \in 1..Len(Volumes(a)) : vols[v] = Volumes(a)[v]]_vars

\* C24 witness: a second file was appended to an Amf whose vertices it
\* re-used, one of them written differently in the file.
C24_Witness ==
  /\ last.op = "append_stl"
  /\ last.status = "ok"
  /\ last.facets = <<Facet2>>
  /\ Alone(last.amf)
  /\ Len(call) = 2
  /\ Len(Volumes(last.amf)) = 2
  /\ Len(Vertices(last.amf)) = 2
  /\ Volumes(last.amf)[1].triangles # Volumes(last.amf)[2].triangles

\* C25 (independent instances): an append_stl on one Amf() leaves every other
\* Amf() as it was, and a new Amf() has no volumes and no vertices.
C25_Independent ==
  [][/\ last'.op = "append_stl" =>
          \A b \in 1..Len(call) :
             (b # last'.amf /\ dense[b] = [volumes |-> None, vertices |-> None]
                /\ dense[last'.amf] = [volumes |-> None, vertices |-> None]) =>
                /\ tree'[call'[b].volumes] = Volumes(b)
                /\ tree'[call'[b].vertices] = Vertices(b)
     /\ (last'.op = "new" /\ dense'[last'.amf] = [volumes |-> None, vertices |-> None]) =>
          /\ tree'[call'[last'.amf].volumes] = <<>>
          /\ tree'[call'[last'.amf].vertices] = <<>>]_vars


(***************************************************************************)
(* gcode_to_voxel.py: Parser.parse and the Voxels table.  In SpecParse the *)
(* variable `tree` holds the Voxels object, `call` the running parse (the  *)
(* lines not yet read and whether it is running, has returned or has       *)
(* raised), `dense` the height of every Layer made by new_layer, in order, *)
(* and `last` the last line read.  Lengths are in hundredths of a          *)
(* millimetre, so that RESOLUTION = 0.1 is 10.                             *)
(***************************************************************************)

MaxLines == 3

RESOLUTION == 10

\* int(round(z / RESOLUTION, 0)) for z >= 0: the nearest cell, halves upward.
ZCell(z) == (2 * z + RESOLUTION) \div (2 * RESOLUTION)

\* Voxels.__init__: no layer yet, an empty table.
VoxelsNew == [prev_z |-> 0, layer_height |-> 0, layer |-> None, table |-> <<>>, keys |-> FALSE]

\* range(int(self.layer_height / RESOLUTION)): layer_height is a number of
\* cells and RESOLUTION is 0.1, so the quotient is ten per cell; a negative
\* quotient gives an empty range.
DumpCount(layer_height) ==
  IF layer_height <= 0 THEN 0 ELSE (layer_height * 100) \div RESOLUTION

RECURSIVE Repeat(_, _)

Repeat(x, n) == IF n <= 0 THEN <<>> ELSE <<x>> \o Repeat(x, n - 1)

\* Voxels._dump_layer: the current layer is appended to the table once per
\* value of the range.
DumpLayer(v) == [v EXCEPT !.table = @ \o Repeat(v.layer.val, DumpCount(v.layer_height))]

\* Voxels.new_layer(z); made is the number of Layer objects made before.
NewLayer(v, z, made) ==
  LET dumped == IF v.prev_z # 0 THEN DumpLayer(v) ELSE v
      cell == ZCell(z)
  IN [dumped EXCEPT !.layer_height = cell - v.prev_z,
                    !.layer = Some(made + 1),
                    !.prev_z = cell]

\* Voxels.write_keys
WriteKeys(v) == [v EXCEPT !.keys = TRUE]

\* The heights of the G1 Z lines, in hundredths of a millimetre.
Zs == {0, 20, 40, 60}

\* The lines of the file that parse tells apart: a layer change, a feed
\* rate, an extrusion move.
Lines == [kind : {"G1 Z"}, z : Zs] \cup [kind : {"G1 F", "G1 X Y E"}, z : {0}]

GcodeFiles == UNION {[1..n -> Lines] : n \in 0..MaxLines}

InitParse ==
  /\ tree = VoxelsNew
  /\ \E f \in GcodeFiles : call = [lines |-> f, status |-> "running"]
  /\ dense = <<>>
  /\ last = [op |-> "Parser", status |-> "ok"]

\* One pass of the loop of Parser.parse: a G1 Z line opens a layer, a G1 F
\* line sets the speed, an extrusion move calls self.voxels_repr.layer.fill_traj,
\* which raises (AttributeError without a layer, TypeError on the coordinates,
\* which are strings).
ParseLine ==
  /\ call.status = "running"
  /\ call.lines # <<>>
  /\ LET line == Head(call.lines)
     IN /\ last' = [op |-> line.kind, status |-> IF line.kind = "G1 X Y E" THEN "raised" ELSE "ok"]
        /\ call' = [lines |-> Tail(call.lines),
                    status |-> IF line.kind = "G1 X Y E" THEN "raised" ELSE "running"]
        /\ tree' = IF line.kind = "G1 Z" THEN NewLayer(tree, line.z, Len(dense)) ELSE tree
        /\ dense' = IF line.kind = "G1 Z" THEN Append(dense, ZCell(line.z) - tree.prev_z)
                    ELSE dense

\* The end of the file: parse writes the keys and returns.
ParseReturn ==
  /\ call.status = "running"
  /\ call.lines = <<>>
  /\ tree' = WriteKeys(tree)
  /\ call' = [call EXCEPT !.status = "returned"]
  /\ last' = [op |-> "write_keys", status |-> "ok"]
  /\ UNCHANGED dense

NextParse == ParseLine \/ ParseReturn

SpecParse == InitParse /\ [][NextParse]_vars

\* The number of slices of the table that hold the given layer.
Slices(layer) == Cardinality({i \in 1..Len(tree.table) : tree.table[i] = layer})

\* C26 (no layer lost): when parse has returned, every layer opened with a
\* height of at least one cell is in the table, in as many slices as its
\* height in cells.
C26_NoLayerLost ==
  call.status = "returned" =>
     \A layer \in 1..Len(dense) : dense[layer] >= 1 => Slices(layer) = dense[layer]

====
